---- MODULE Spec2Model ----
(***************************************************************************)
(* HR management backend: the leave lifecycle with its balance ledger and  *)
(* the job-assignment history, in the two code variants of the repository  *)
(* (backend/app and HRManagement/app).                                     *)
(*                                                                         *)
(* Dates are day numbers 0..MaxDate; a year is YearLen consecutive days.   *)
(* A nullable column holds <<>> (NULL) or <<v>>.                           *)
(***************************************************************************)
EXTENDS Integers, Sequences, FiniteSets, TLC

VARIABLES
    today,        \* timezone.now().date()
    employees,    \* table employee:        emp_id -> row
    jobs,         \* table job:             job_id -> row
    leave_types,  \* table leave_type:      leave_type_id -> row
    statuses,     \* table employee_status: sequence of rows (st_id = index)
    balances,     \* table leave_balance:   (employee, leave_type, year) -> balance
    leaves,       \* table leave_management: sequence of rows (leave_id = index)
    reqs,         \* requests in flight, one per worker, with their local variables
    ledger0       \* history: leave_balance as it was when no request was in flight

vars == <<today, employees, jobs, leave_types, statuses, balances, leaves, reqs, ledger0>>

\* ------------------------------------------------------------------ bounds
MaxDate == 2
YearLen == 2
MaxLeaves == 2
MaxAlloc == 3

Dates == 0..MaxDate
Emps == {"e1"}
LeaveTypes == {"annual"}
NULL == <<>>

YearOf(d) == d \div YearLen

\* The leave_balance row a leave application is charged to.
KeyOf(row) == <<row.employee, row.leave_type, row.year>>

RECURSIVE SumDays(_, _)
\* Sum('days_requested') over the rows of lv whose index is in S.
SumDays(lv, S) ==
    IF S = {} THEN 0
    ELSE LET i == CHOOSE x \in S : TRUE
         IN lv[i].days_requested + SumDays(lv, S \ {i})

\* ---------------------------------------------------- backend: Employee
\* self.leaves.filter(leave_type, year, status='APPROVED').aggregate(Sum) or 0
consumed_days(lv, emp, lt, year) ==
    SumDays(lv, {i \in DOMAIN lv : /\ lv[i].employee = emp
                                   /\ lv[i].leave_type = lt
                                   /\ lv[i].year = year
                                   /\ lv[i].status = "APPROVED"})

\* The balance row can_apply_leave reads: the stored one, or the annual
\* allocation of the leave type when the row does not exist.
available_balance(bal, emp, lt, year) ==
    IF <<emp, lt, year>> \in DOMAIN bal
    THEN bal[<<emp, lt, year>>]
    ELSE leave_types[lt].annual_allocation

\* The table after LeaveBalance.objects.create(...) in the DoesNotExist branch.
balance_created(bal, emp, lt, year) ==
    IF <<emp, lt, year>> \in DOMAIN bal
    THEN bal
    ELSE [k \in DOMAIN bal \cup {<<emp, lt, year>>} |->
            IF k \in DOMAIN bal THEN bal[k] ELSE leave_types[lt].annual_allocation]

remaining_balance(lv, bal, emp, lt, start_date) ==
    available_balance(bal, emp, lt, YearOf(start_date))
        - consumed_days(lv, emp, lt, YearOf(start_date))

\* The branch `if requested_days > remaining_balance`.
insufficient_balance(lv, bal, emp, lt, start_date, end_date) ==
    (end_date - start_date) + 1 > remaining_balance(lv, bal, emp, lt, start_date)

\* self.leaves.filter(start_date__lte=end_date, end_date__gte=start_date,
\*                    status='APPROVED')
overlapping_leaves(lv, emp, start_date, end_date) ==
    {i \in DOMAIN lv : /\ lv[i].employee = emp
                       /\ lv[i].start_date <= end_date
                       /\ lv[i].end_date >= start_date
                       /\ lv[i].status = "APPROVED"}

\* A can_apply_leave that applies the balance rule and no other.
can_apply_leave_balance_only(lv, bal, emp, start_date, end_date, lt, now) ==
    LET bal1 == balance_created(bal, emp, lt, YearOf(start_date))
    IN IF insufficient_balance(lv, bal, emp, lt, start_date, end_date)
       THEN [exc |-> "AttributeError", can_apply |-> FALSE,
             errors |-> <<>>, balances |-> bal1]
       ELSE [exc |-> "none", can_apply |-> TRUE,
             errors |-> <<>>, balances |-> bal1]

\* Employee.can_apply_leave.  The result carries the table leave_balance as
\* the call leaves it, and exc = "AttributeError" when building the
\* insufficient-balance message reads leave_type.name, which LeaveType
\* (leave_name) does not have: the call then returns nothing.
can_apply_leave(lv, bal, emp, start_date, end_date, lt, now) ==
    LET requested_days == (end_date - start_date) + 1
        bal1 == balance_created(bal, emp, lt, YearOf(start_date))
        errors ==
            (IF requested_days <= 0 THEN <<"duration">> ELSE <<>>)
            \o (IF start_date < now THEN <<"past">> ELSE <<>>)
            \o (IF end_date < start_date THEN <<"end_before_start">> ELSE <<>>)
            \o (IF overlapping_leaves(lv, emp, start_date, end_date) # {}
                THEN <<"overlap">> ELSE <<>>)
    IN IF insufficient_balance(lv, bal, emp, lt, start_date, end_date)
       THEN [exc |-> "AttributeError", can_apply |-> FALSE,
             errors |-> <<>>, balances |-> bal1]
       ELSE [exc |-> "none", can_apply |-> Len(errors) = 0,
             errors |-> errors, balances |-> bal1]

\* ---------------------------------------------- backend: LeaveManagement
Reasons == {<<>>, <<" ", " ">>, <<"r", " ">>}

\* A strip that removes nothing.
no_strip(s) == s

RECURSIVE lstrip(_)
lstrip(s) == IF s # <<>> /\ Head(s) = " " THEN lstrip(Tail(s)) ELSE s

RECURSIVE rstrip(_)
rstrip(s) ==
    IF s # <<>> /\ s[Len(s)] = " " THEN rstrip(SubSeq(s, 1, Len(s) - 1)) ELSE s

\* str.strip()
strip(s) == rstrip(lstrip(s))

\* The row LeaveManagement.save writes for a new application.
new_leave(emp, lt, start_date, end_date) ==
    [employee |-> emp, leave_type |-> lt,
     start_date |-> start_date, end_date |-> end_date,
     days_requested |-> (end_date - start_date) + 1,
     year |-> YearOf(start_date),
     status |-> "PENDING", validated_on |-> NULL, rejection_reason |-> NULL]

\* The overlap query of LeaveManagementSerializer.validate.
serializer_overlapping(lv, emp, start_date, end_date) ==
    {i \in DOMAIN lv : /\ lv[i].employee = emp
                       /\ lv[i].status \in {"PENDING", "APPROVED"}
                       /\ lv[i].start_date <= end_date
                       /\ lv[i].end_date >= start_date}

\* The serializer's validate without its test of overlapping applications.
validate_without_overlap(lv, emp, start_date, end_date, now) ==
    IF start_date > end_date THEN "end_date"
    ELSE IF start_date < now THEN "start_date"
    ELSE "valid"

\* LeaveManagementSerializer.validate on a create (self.instance is None):
\* the field the first failing check reports, or "valid".
validate(lv, emp, start_date, end_date, now) ==
    IF start_date > end_date THEN "end_date"
    ELSE IF start_date < now THEN "start_date"
    ELSE IF serializer_overlapping(lv, emp, start_date, end_date) # {}
         THEN "non_field_errors"
    ELSE "valid"

\* LeaveManagement.save of a new application (status PENDING): full_clean
\* runs clean, which runs can_apply_leave; then the row is inserted.
LeaveManagement_save(lv, bal, emp, lt, start_date, end_date, now) ==
    LET r == can_apply_leave(lv, bal, emp, start_date, end_date, lt, now)
    IN IF (end_date - start_date) + 1 <= 0
       THEN [exc |-> "ValidationError", leaves |-> lv, balances |-> bal]
       ELSE IF r.exc # "none"
       THEN [exc |-> r.exc, leaves |-> lv, balances |-> r.balances]
       ELSE IF ~r.can_apply
       THEN [exc |-> "ValidationError", leaves |-> lv, balances |-> r.balances]
       ELSE [exc |-> "none",
             leaves |-> Append(lv, new_leave(emp, lt, start_date, end_date)),
             balances |-> r.balances]

\* A ledger update that charges every year of the employee's leave type.
_update_every_year(bal, emp, lt, year, days_change) ==
    LET bal1 == balance_created(bal, emp, lt, year)
    IN [k \in DOMAIN bal1 |->
          IF k[1] = emp /\ k[2] = lt THEN bal1[k] + days_change ELSE bal1[k]]

\* A ledger update whose get_or_create seeds a missing row with zero.
_update_from_zero(bal, emp, lt, year, days_change) ==
    [k \in DOMAIN bal \cup {<<emp, lt, year>>} |->
        IF k = <<emp, lt, year>>
        THEN (IF k \in DOMAIN bal THEN bal[k] ELSE 0) + days_change
        ELSE bal[k]]

\* LeaveManagement._update_leave_balance: get_or_create the row, add
\* days_change to the value read, write it back.
_update_leave_balance(bal, emp, lt, year, days_change) ==
    LET bal1 == balance_created(bal, emp, lt, year)
    IN [bal1 EXCEPT ![<<emp, lt, year>>] = @ + days_change]

\* An approve that marks the leave and leaves the ledger as the
\* eligibility check left it.
approve_without_debit(lv, bal, l, now) ==
    LET self == lv[l]
        r == can_apply_leave(lv, bal, self.employee, self.start_date,
                             self.end_date, self.leave_type, now)
    IN IF self.status # "PENDING"
       THEN [exc |-> "ValidationError", leaves |-> lv, balances |-> bal]
       ELSE IF r.exc # "none"
       THEN [exc |-> r.exc, leaves |-> lv, balances |-> r.balances]
       ELSE IF ~r.can_apply
       THEN [exc |-> "ValidationError", leaves |-> lv, balances |-> r.balances]
       ELSE [exc |-> "none",
             leaves |-> [lv EXCEPT ![l].status = "APPROVED",
                                   ![l].validated_on = <<now>>],
             balances |-> r.balances]

\* An approve that does not look at the status it starts from.
approve_any_status(lv, bal, l, now) ==
    LET self == lv[l]
        r == can_apply_leave(lv, bal, self.employee, self.start_date,
                             self.end_date, self.leave_type, now)
    IN IF r.exc # "none"
       THEN [exc |-> r.exc, leaves |-> lv, balances |-> r.balances]
       ELSE IF ~r.can_apply
       THEN [exc |-> "ValidationError", leaves |-> lv, balances |-> r.balances]
       ELSE [exc |-> "none",
             leaves |-> [lv EXCEPT ![l].status = "APPROVED",
                                   ![l].validated_on = <<now>>],
             balances |-> _update_leave_balance(r.balances, self.employee,
                              self.leave_type, self.year, -self.days_requested)]

\* LeaveManagement.approve
approve(lv, bal, l, now) ==
    LET self == lv[l]
        r == can_apply_leave(lv, bal, self.employee, self.start_date,
                             self.end_date, self.leave_type, now)
    IN IF self.status # "PENDING"
       THEN [exc |-> "ValidationError", leaves |-> lv, balances |-> bal]
       ELSE IF r.exc # "none"
       THEN [exc |-> r.exc, leaves |-> lv, balances |-> r.balances]
       ELSE IF ~r.can_apply
       THEN [exc |-> "ValidationError", leaves |-> lv, balances |-> r.balances]
       ELSE [exc |-> "none",
             leaves |-> [lv EXCEPT ![l].status = "APPROVED",
                                   ![l].validated_on = <<now>>],
             balances |-> _update_leave_balance(r.balances, self.employee,
                              self.leave_type, self.year, -self.days_requested)]

\* A reject that does not look at the status it starts from.
reject_any_status(lv, bal, l, rejection_reason, now) ==
    IF strip(rejection_reason) = <<>>
    THEN [exc |-> "ValidationError", leaves |-> lv, balances |-> bal]
    ELSE [exc |-> "none",
          leaves |-> [lv EXCEPT ![l].status = "REJECTED",
                                ![l].rejection_reason = <<rejection_reason>>,
                                ![l].validated_on = <<now>>],
          balances |-> bal]

\* LeaveManagement.reject
reject(lv, bal, l, rejection_reason, now) ==
    IF lv[l].status # "PENDING"
    THEN [exc |-> "ValidationError", leaves |-> lv, balances |-> bal]
    ELSE IF strip(rejection_reason) = <<>>
    THEN [exc |-> "ValidationError", leaves |-> lv, balances |-> bal]
    ELSE [exc |-> "none",
          leaves |-> [lv EXCEPT ![l].status = "REJECTED",
                                ![l].rejection_reason = <<rejection_reason>>,
                                ![l].validated_on = <<now>>],
          balances |-> bal]

\* A cancel that credits the ledger whatever the status was.
cancel_credits_pending(lv, bal, l, now) ==
    LET self == lv[l]
    IN IF self.status \notin {"PENDING", "APPROVED"}
       THEN [exc |-> "ValidationError", leaves |-> lv, balances |-> bal]
       ELSE IF self.status = "APPROVED" /\ self.start_date <= now
       THEN [exc |-> "ValidationError", leaves |-> lv, balances |-> bal]
       ELSE [exc |-> "none",
             leaves |-> [lv EXCEPT ![l].status = "CANCELLED"],
             balances |-> _update_leave_balance(bal, self.employee,
                              self.leave_type, self.year, self.days_requested)]

\* A cancel that gives no days back to the ledger.
cancel_without_credit(lv, bal, l, now) ==
    LET self == lv[l]
    IN IF self.status \notin {"PENDING", "APPROVED"}
       THEN [exc |-> "ValidationError", leaves |-> lv, balances |-> bal]
       ELSE IF self.status = "APPROVED" /\ self.start_date <= now
       THEN [exc |-> "ValidationError", leaves |-> lv, balances |-> bal]
       ELSE [exc |-> "none",
             leaves |-> [lv EXCEPT ![l].status = "CANCELLED"],
             balances |-> bal]

\* A cancel that does not look at the start date of an approved leave.
cancel_after_start(lv, bal, l, now) ==
    LET self == lv[l]
    IN IF self.status \notin {"PENDING", "APPROVED"}
       THEN [exc |-> "ValidationError", leaves |-> lv, balances |-> bal]
       ELSE [exc |-> "none",
             leaves |-> [lv EXCEPT ![l].status = "CANCELLED"],
             balances |-> IF self.status = "APPROVED"
                          THEN _update_leave_balance(bal, self.employee,
                                   self.leave_type, self.year, self.days_requested)
                          ELSE bal]

\* LeaveManagement.cancel
cancel(lv, bal, l, now) ==
    LET self == lv[l]
    IN IF self.status \notin {"PENDING", "APPROVED"}
       THEN [exc |-> "ValidationError", leaves |-> lv, balances |-> bal]
       ELSE IF self.status = "APPROVED" /\ self.start_date <= now
       THEN [exc |-> "ValidationError", leaves |-> lv, balances |-> bal]
       ELSE [exc |-> "none",
             leaves |-> [lv EXCEPT ![l].status = "CANCELLED"],
             balances |-> IF self.status = "APPROVED"
                          THEN _update_leave_balance(bal, self.employee,
                                   self.leave_type, self.year, self.days_requested)
                          ELSE bal]

\* A can_be_cancelled that does not compare the start date with the clock.
can_be_cancelled_any_day(lv, l, now) ==
    lv[l].status \notin {"REJECTED", "CANCELLED"}

\* LeaveManagement.can_be_cancelled
can_be_cancelled(lv, l, now) ==
    IF lv[l].status \in {"REJECTED", "CANCELLED"} THEN FALSE
    ELSE IF lv[l].status = "APPROVED" /\ lv[l].start_date <= now THEN FALSE
    ELSE TRUE

\* A save that writes days_requested and year as the row carries them.
not_recomputed(row) == row

\* LeaveManagement.save, first statement: days_requested and year are set
\* from the dates the instance carries.
recomputed(row) ==
    [row EXCEPT !.days_requested = (row.end_date - row.start_date) + 1,
                !.year = YearOf(row.start_date)]

\* PATCH leave-applications/{id}/ with start_date and/or end_date (<<>> when
\* the request leaves the field out): LeaveManagementSerializer.validate
\* with an instance, then ModelSerializer.update -> LeaveManagement.save,
\* which validates only while the leave is PENDING.
partial_update(lv, bal, l, start_date, end_date, now) ==
    LET self == lv[l]
        both == start_date # NULL /\ end_date # NULL
        row == recomputed([self EXCEPT
                  !.start_date = IF start_date = NULL THEN @ ELSE start_date[1],
                  !.end_date = IF end_date = NULL THEN @ ELSE end_date[1]])
        r == can_apply_leave(lv, bal, row.employee, row.start_date,
                             row.end_date, row.leave_type, now)
    IN IF both /\ start_date[1] > end_date[1]
       THEN [exc |-> "BadRequest", leaves |-> lv, balances |-> bal]
       ELSE IF both /\ serializer_overlapping(lv, self.employee,
                           start_date[1], end_date[1]) \ {l} # {}
       THEN [exc |-> "BadRequest", leaves |-> lv, balances |-> bal]
       ELSE IF self.status # "PENDING"
       THEN [exc |-> "none", leaves |-> [lv EXCEPT ![l] = row], balances |-> bal]
       ELSE IF row.days_requested <= 0
       THEN [exc |-> "ValidationError", leaves |-> lv, balances |-> bal]
       ELSE IF r.exc # "none"
       THEN [exc |-> r.exc, leaves |-> lv, balances |-> r.balances]
       ELSE IF ~r.can_apply
       THEN [exc |-> "ValidationError", leaves |-> lv, balances |-> r.balances]
       ELSE [exc |-> "none", leaves |-> [lv EXCEPT ![l] = row],
             balances |-> r.balances]

\* ------------------------------------------------- backend: leave requests
Workers == {"w1", "w2"}

IdleReq == [op |-> "idle", pc |-> "idle", l |-> 0, self |-> NULL,
            bal |-> 0, exc |-> "none"]

Idle == [w \in Workers |-> IdleReq]

\* POST leave-applications/ : ModelViewSet.create, serializer validation and
\* then serializer.save -> LeaveManagement.save.
CreateLeave(emp, lt, start_date, end_date) ==
    /\ Len(leaves) < MaxLeaves
    /\ LET v == validate(leaves, emp, start_date, end_date, today)
           r == LeaveManagement_save(leaves, balances, emp, lt,
                                     start_date, end_date, today)
       IN IF v # "valid"
          THEN UNCHANGED <<leaves, balances, ledger0>>
          ELSE /\ leaves' = r.leaves
               /\ balances' = r.balances
               /\ ledger0' = r.balances
    /\ UNCHANGED <<today, employees, jobs, leave_types, statuses, reqs>>

\* POST leave-applications/{id}/approve/
ApproveLeave(l) ==
    /\ LET r == approve(leaves, balances, l, today)
       IN /\ leaves' = r.leaves
          /\ balances' = r.balances
          /\ ledger0' = r.balances
    /\ UNCHANGED <<today, employees, jobs, leave_types, statuses, reqs>>

\* POST leave-applications/{id}/reject/
RejectLeave(l, rejection_reason) ==
    /\ LET r == reject(leaves, balances, l, rejection_reason, today)
       IN /\ leaves' = r.leaves
          /\ balances' = r.balances
          /\ ledger0' = r.balances
    /\ UNCHANGED <<today, employees, jobs, leave_types, statuses, reqs>>

\* POST leave-applications/{id}/cancel/
CancelLeave(l) ==
    /\ LET r == cancel(leaves, balances, l, today)
       IN /\ leaves' = r.leaves
          /\ balances' = r.balances
          /\ ledger0' = r.balances
    /\ UNCHANGED <<today, employees, jobs, leave_types, statuses, reqs>>

\* A day passes.
Tick ==
    /\ today < MaxDate
    /\ today' = today + 1
    /\ UNCHANGED <<employees, jobs, leave_types, statuses, balances, leaves, reqs, ledger0>>

\* One employee and one job exist, no assignment, no leave, no balance row.
Init ==
    /\ today = 0
    /\ employees = [e \in Emps |->
                      [is_active |-> TRUE, hire_date |-> 0, resignation_date |-> NULL]]
    /\ jobs = [j \in {"dev"} |-> [is_active |-> TRUE]]
    /\ leave_types = [lt \in LeaveTypes |-> [annual_allocation |-> MaxAlloc]]
    /\ statuses = <<>>
    /\ balances = [k \in {} |-> 0]
    /\ leaves = <<>>
    /\ reqs = Idle
    /\ ledger0 = balances

Next ==
    \/ \E emp \in DOMAIN employees, lt \in LeaveTypes, s \in Dates, e \in Dates :
          CreateLeave(emp, lt, s, e)
    \/ \E l \in DOMAIN leaves : ApproveLeave(l)
    \/ \E l \in DOMAIN leaves, reason \in Reasons : RejectLeave(l, reason)
    \/ \E l \in DOMAIN leaves : CancelLeave(l)
    \/ Tick

\* The leave lifecycle of the backend variant, one request at a time.
Spec == Init /\ [][Next]_vars

\* PATCH leave-applications/{id}/
UpdateLeave(l, start_date, end_date) ==
    /\ LET r == partial_update(leaves, balances, l, start_date, end_date, today)
       IN /\ leaves' = r.leaves
          /\ balances' = r.balances
          /\ ledger0' = r.balances
    /\ UNCHANGED <<today, employees, jobs, leave_types, statuses, reqs>>

NextUpdate ==
    \/ \E emp \in DOMAIN employees, lt \in LeaveTypes, s \in Dates, e \in Dates :
          CreateLeave(emp, lt, s, e)
    \/ \E l \in DOMAIN leaves : ApproveLeave(l)
    \/ \E l \in DOMAIN leaves, reason \in Reasons : RejectLeave(l, reason)
    \/ \E l \in DOMAIN leaves : CancelLeave(l)
    \/ \E l \in DOMAIN leaves, s \in {NULL} \cup {<<d>> : d \in Dates},
          e \in {NULL} \cup {<<d>> : d \in Dates} : UpdateLeave(l, s, e)
    \/ Tick

\* The leave lifecycle with the date edits the ModelViewSet also serves.
SpecUpdate == Init /\ [][NextUpdate]_vars

\* ------------------------------- backend: leave requests, statement by
\* statement.  Every ORM write commits on its own (the views open no
\* transaction), so the tables are what any other request reads.
Finish(w, e) == reqs' = [reqs EXCEPT ![w].pc = "done", ![w].exc = e]

\* leave = self.get_object(): the row is read into the request's memory.
Begin(w, o, l) ==
    /\ reqs' = [reqs EXCEPT ![w] = [op |-> o, pc |-> "check", l |-> l,
                                    self |-> <<leaves[l]>>, bal |-> 0,
                                    exc |-> "none"]]
    /\ ledger0' = IF \A v \in Workers \ {w} : reqs[v].pc = "idle"
                  THEN balances ELSE ledger0
    /\ UNCHANGED <<today, employees, jobs, leave_types, statuses, balances, leaves>>

\* approve, up to `self.status = 'APPROVED'`: the status test on the row in
\* memory, then can_apply_leave on the tables.
ApproveCheck(w) ==
    /\ reqs[w].op = "approve" /\ reqs[w].pc = "check"
    /\ LET self == reqs[w].self[1]
           r == can_apply_leave(leaves, balances, self.employee,
                    self.start_date, self.end_date, self.leave_type, today)
       IN IF self.status # "PENDING"
          THEN Finish(w, "ValidationError") /\ UNCHANGED balances
          ELSE /\ balances' = r.balances
               /\ IF r.exc # "none" THEN Finish(w, r.exc)
                  ELSE IF ~r.can_apply THEN Finish(w, "ValidationError")
                  ELSE reqs' = [reqs EXCEPT ![w].pc = "read"]
    /\ UNCHANGED <<today, employees, jobs, leave_types, statuses, leaves, ledger0>>

\* cancel, up to `self.status = 'CANCELLED'`: both tests on the row in memory.
CancelCheck(w) ==
    /\ reqs[w].op = "cancel" /\ reqs[w].pc = "check"
    /\ LET self == reqs[w].self[1]
       IN IF self.status \notin {"PENDING", "APPROVED"}
          THEN Finish(w, "ValidationError")
          ELSE IF self.status = "APPROVED" /\ self.start_date <= today
          THEN Finish(w, "ValidationError")
          ELSE reqs' = [reqs EXCEPT
                  ![w].pc = IF self.status = "APPROVED" THEN "read" ELSE "save"]
    /\ UNCHANGED <<today, employees, jobs, leave_types, statuses, balances,
                   leaves, ledger0>>

\* _update_leave_balance: LeaveBalance.objects.get_or_create(...)
BalanceRead(w) ==
    /\ reqs[w].pc = "read"
    /\ LET self == reqs[w].self[1]
           bal1 == balance_created(balances, self.employee, self.leave_type,
                                   self.year)
       IN /\ balances' = bal1
          /\ reqs' = [reqs EXCEPT ![w].pc = "write", ![w].bal = bal1[KeyOf(self)]]
    /\ UNCHANGED <<today, employees, jobs, leave_types, statuses, leaves, ledger0>>

\* _update_leave_balance: leave_balance.balance += days_change;
\* leave_balance.save(update_fields=['balance'])
BalanceWrite(w) ==
    /\ reqs[w].pc = "write"
    /\ LET self == reqs[w].self[1]
           days_change == IF reqs[w].op = "approve" THEN -self.days_requested
                          ELSE self.days_requested
       IN balances' = [balances EXCEPT ![KeyOf(self)] = reqs[w].bal + days_change]
    /\ reqs' = [reqs EXCEPT ![w].pc = "save"]
    /\ UNCHANGED <<today, employees, jobs, leave_types, statuses, leaves, ledger0>>

\* self.save(update_fields=[...]) at the end of approve and of cancel.
StatusSave(w) ==
    /\ reqs[w].pc = "save"
    /\ leaves' = IF reqs[w].op = "approve"
                 THEN [leaves EXCEPT ![reqs[w].l].status = "APPROVED",
                                     ![reqs[w].l].validated_on = <<today>>]
                 ELSE [leaves EXCEPT ![reqs[w].l].status = "CANCELLED"]
    /\ Finish(w, "none")
    /\ UNCHANGED <<today, employees, jobs, leave_types, statuses, balances, ledger0>>

\* The database fails the last write (connection lost, statement refused):
\* the request ends with the exception; nothing undoes the writes made.
SaveFails(w) ==
    /\ reqs[w].pc = "save"
    /\ Finish(w, "DatabaseError")
    /\ UNCHANGED <<today, employees, jobs, leave_types, statuses, balances,
                   leaves, ledger0>>

\* One request at a time, statement by statement; the database may fail the
\* last write of a request, once in a run.
NextFail ==
    \/ /\ reqs["w1"].pc = "idle" \/ (reqs["w1"].pc = "done" /\ reqs["w1"].exc # "DatabaseError")
       /\ \E emp \in DOMAIN employees, lt \in LeaveTypes, s \in Dates, e \in Dates :
             CreateLeave(emp, lt, s, e)
    \/ /\ reqs["w1"].pc = "idle" \/ (reqs["w1"].pc = "done" /\ reqs["w1"].exc # "DatabaseError")
       /\ \E l \in DOMAIN leaves, o \in {"approve", "cancel"} : Begin("w1", o, l)
    \/ ApproveCheck("w1")
    \/ CancelCheck("w1")
    \/ BalanceRead("w1")
    \/ BalanceWrite("w1")
    \/ StatusSave("w1")
    \/ SaveFails("w1")

SpecFail == Init /\ [][NextFail]_vars

\* Leaves are submitted; then each worker handles one approve request, their
\* statements interleaved.  ledger0 keeps the ledger as it was when the first
\* of them began.
NextConc ==
    \/ /\ \A w \in Workers : reqs[w].pc = "idle"
       /\ \E emp \in DOMAIN employees, lt \in LeaveTypes, s \in Dates, e \in Dates :
             CreateLeave(emp, lt, s, e)
    \/ \E w \in Workers, l \in DOMAIN leaves :
          /\ reqs[w].pc = "idle"
          /\ Begin(w, "approve", l)
    \/ \E w \in Workers : ApproveCheck(w)
    \/ \E w \in Workers : BalanceRead(w)
    \/ \E w \in Workers : BalanceWrite(w)
    \/ \E w \in Workers : StatusSave(w)

SpecConc == Init /\ [][NextConc]_vars

\* ------------------------------------------------ backend: EmployeeStatus
MaxStatuses == 2
Jobs == {"dev", "ops"}
Salaries == {0, 50}

\* Employee.get_current_status: self.statuses.filter(is_current=True).first()
\* (the set of rows the filter selects; .first() takes one of them).
current_statuses(st, emp) ==
    {i \in DOMAIN st : st[i].employee = emp /\ st[i].is_current}

\* A clean that does not compare end_date with start_date.
clean_without_dates(row) ==
    (IF row.start_date < employees[row.employee].hire_date
     THEN {"start_date"} ELSE {})
    \cup (IF row.salary <= 0 THEN {"salary"} ELSE {})

\* EmployeeStatus.clean: the fields it reports.
EmployeeStatus_clean(row) ==
    (IF row.end_date # NULL /\ row.end_date[1] < row.start_date
     THEN {"end_date"} ELSE {})
    \cup (IF row.start_date < employees[row.employee].hire_date
          THEN {"start_date"} ELSE {})
    \cup (IF row.salary <= 0 THEN {"salary"} ELSE {})

\* A table whose constraint refuses nothing.
no_constraint(st, row, pk) == TRUE

\* Meta.constraints: UniqueConstraint(fields=['employee'],
\* condition=Q(is_current=True)).  TRUE when writing `row` under key pk
\* keeps the rows of the table unique.
unique_current_status_per_employee(st, row, pk) ==
    ~(row.is_current /\ current_statuses(st, row.employee) \ {pk} # {})

\* The table with `row` written under key pk (insert when pk is new).
written(st, row, pk) ==
    IF pk \in DOMAIN st THEN [st EXCEPT ![pk] = row] ELSE Append(st, row)

\* ....filter(employee, is_current=True).exclude(pk=self.pk)
\*     .update(is_current=False, end_date=timezone.now().date())
others_closed(st, row, pk, now) ==
    [i \in DOMAIN st |->
        IF i # pk /\ st[i].employee = row.employee /\ st[i].is_current
        THEN [st[i] EXCEPT !.is_current = FALSE, !.end_date = <<now>>]
        ELSE st[i]]

\* A save that writes the row as it is: no full_clean, no closing of the
\* other current rows, no constraint on the table.
EmployeeStatus_save_plain(st, row, pk, now) ==
    [exc |-> "none", statuses |-> written(st, row, pk)]

\* EmployeeStatus.save: full_clean (clean and the validation of the
\* constraint), closing the other current rows, then the write, which the
\* table's constraint may refuse.
EmployeeStatus_save(st, row, pk, now) ==
    LET st1 == IF row.is_current THEN others_closed(st, row, pk, now) ELSE st
    IN IF EmployeeStatus_clean(row) # {}
          \/ ~unique_current_status_per_employee(st, row, pk)
       THEN [exc |-> "ValidationError", statuses |-> st]
       ELSE IF ~unique_current_status_per_employee(st1, row, pk)
       THEN [exc |-> "IntegrityError", statuses |-> st]
       ELSE [exc |-> "none", statuses |-> written(st1, row, pk)]

\* Employee.clean: the fields it reports.
Employee_clean(e, now) ==
    (IF e.resignation_date # NULL /\ e.resignation_date[1] < e.hire_date
     THEN {"resignation_date"} ELSE {})
    \cup (IF e.hire_date > now THEN {"hire_date"} ELSE {})

\* An assign_job that tests neither the job, nor the employee, nor the
\* current assignment.
assign_job_unchecked(st, emp, job, start_date, salary, now) ==
    IF start_date # NULL /\ start_date[1] > now
    THEN [exc |-> "BadRequest", statuses |-> st]
    ELSE EmployeeStatus_save_plain(st,
            [employee |-> emp, job |-> job,
             start_date |-> IF start_date = NULL THEN now ELSE start_date[1],
             end_date |-> NULL, salary |-> salary, is_current |-> TRUE],
            Len(st) + 1, now)

\* POST employees/{id}/assign_job/ (get_object_or_404 is django.shortcuts',
\* as HRManagement/app/views.py imports it).  start_date is <<>> when the
\* request gives none.
assign_job(st, emp, job, start_date, salary, now) ==
    IF start_date # NULL /\ start_date[1] > now
    THEN [exc |-> "BadRequest", statuses |-> st]
    ELSE IF ~jobs[job].is_active THEN [exc |-> "BadRequest", statuses |-> st]
    ELSE IF ~employees[emp].is_active THEN [exc |-> "BadRequest", statuses |-> st]
    ELSE IF current_statuses(st, emp) # {}
    THEN [exc |-> "BadRequest", statuses |-> st]
    ELSE EmployeeStatus_save(st,
            [employee |-> emp, job |-> job,
             start_date |-> IF start_date = NULL THEN now ELSE start_date[1],
             end_date |-> NULL, salary |-> salary, is_current |-> TRUE],
            Len(st) + 1, now)

AssignJob(emp, job, start_date, salary) ==
    /\ Len(statuses) < MaxStatuses
    /\ statuses' = assign_job(statuses, emp, job, start_date, salary, today).statuses
    /\ UNCHANGED <<today, employees, jobs, leave_types, balances, leaves, reqs, ledger0>>

\* A terminate that writes end_date and leaves is_current as it is.
terminate_keeps_current(st, emps, emp, end_date, set_inactive, now) ==
    LET cur == current_statuses(st, emp)
        pk == CHOOSE i \in cur : TRUE
        d == IF end_date = NULL THEN now ELSE end_date[1]
        e1 == [emps[emp] EXCEPT !.is_active = FALSE, !.resignation_date = <<d>>]
    IN IF cur = {}
       THEN [exc |-> "BadRequest", statuses |-> st, employees |-> emps]
       ELSE IF d < st[pk].start_date
       THEN [exc |-> "ValidationError", statuses |-> st, employees |-> emps]
       ELSE [exc |-> "none",
             statuses |-> [st EXCEPT ![pk].end_date = <<d>>],
             employees |-> IF set_inactive THEN [emps EXCEPT ![emp] = e1] ELSE emps]

\* POST employees/{id}/terminate/ : both saves in one transaction.atomic().
terminate(st, emps, emp, end_date, set_inactive, now) ==
    LET cur == current_statuses(st, emp)
        pk == CHOOSE i \in cur : TRUE
        d == IF end_date = NULL THEN now ELSE end_date[1]
        s == EmployeeStatus_save(st,
                [st[pk] EXCEPT !.end_date = <<d>>, !.is_current = FALSE], pk, now)
        e1 == [emps[emp] EXCEPT !.is_active = FALSE, !.resignation_date = <<d>>]
    IN IF cur = {}
       THEN [exc |-> "BadRequest", statuses |-> st, employees |-> emps]
       ELSE IF s.exc # "none"
       THEN [exc |-> s.exc, statuses |-> st, employees |-> emps]
       ELSE IF set_inactive /\ Employee_clean(e1, now) # {}
       THEN [exc |-> "ValidationError", statuses |-> st, employees |-> emps]
       ELSE [exc |-> "none", statuses |-> s.statuses,
             employees |-> IF set_inactive THEN [emps EXCEPT ![emp] = e1] ELSE emps]

\* terminate when employee.save() raises a database error: the exception
\* leaves the transaction.atomic() block, which rolls back the assignment.
terminate_failing(st, emps, emp, end_date, set_inactive, now) ==
    LET r == terminate(st, emps, emp, end_date, set_inactive, now)
    IN IF r.exc = "none" /\ set_inactive
       THEN [exc |-> "DatabaseError", statuses |-> st, employees |-> emps]
       ELSE r

TerminateFails(emp, end_date) ==
    /\ LET r == terminate_failing(statuses, employees, emp, end_date, TRUE, today)
       IN statuses' = r.statuses /\ employees' = r.employees
    /\ UNCHANGED <<today, jobs, leave_types, balances, leaves, reqs, ledger0>>

Terminate(emp, end_date, set_inactive) ==
    /\ LET r == terminate(statuses, employees, emp, end_date, set_inactive, today)
       IN statuses' = r.statuses /\ employees' = r.employees
    /\ UNCHANGED <<today, jobs, leave_types, balances, leaves, reqs, ledger0>>

\* EmployeeStatusViewSet.perform_create (POST employee-status/), employee and
\* job being those the request names: the current row is closed and saved,
\* then the new row is saved with is_current=True.  No transaction: the
\* first save stays when the second fails.
perform_create(st, emp, job, start_date, end_date, salary, now) ==
    LET cur == current_statuses(st, emp)
        pk == CHOOSE i \in cur : TRUE
        d == IF start_date = NULL THEN now ELSE start_date[1]
        s1 == IF cur = {} THEN [exc |-> "none", statuses |-> st]
              ELSE EmployeeStatus_save(st,
                      [st[pk] EXCEPT !.end_date = <<d>>, !.is_current = FALSE],
                      pk, now)
    IN IF s1.exc # "none" THEN s1
       ELSE IF start_date = NULL
       THEN [exc |-> "BadRequest", statuses |-> s1.statuses]
       ELSE EmployeeStatus_save(s1.statuses,
               [employee |-> emp, job |-> job, start_date |-> d,
                end_date |-> end_date, salary |-> salary, is_current |-> TRUE],
               Len(s1.statuses) + 1, now)

CreateStatus(emp, job, start_date, end_date, salary) ==
    /\ Len(statuses) < MaxStatuses
    /\ statuses' = perform_create(statuses, emp, job, start_date, end_date,
                                  salary, today).statuses
    /\ UNCHANGED <<today, employees, jobs, leave_types, balances, leaves, reqs, ledger0>>

\* PATCH employee-status/{id}/ with is_current and end_date: the serializer
\* sets the fields and saves the row.
UpdateStatus(pk, is_current, end_date) ==
    /\ statuses' = EmployeeStatus_save(statuses,
                      [statuses[pk] EXCEPT !.is_current = is_current,
                                           !.end_date = end_date],
                      pk, today).statuses
    /\ UNCHANGED <<today, employees, jobs, leave_types, balances, leaves, reqs, ledger0>>

OptDates == {NULL} \cup {<<d>> : d \in Dates}

\* Two active employees, hired on day 0 and day 1; an active and an inactive
\* job; no assignment yet.  The clock starts on day 1: Employee.save
\* refuses a hire date in the future.
InitAssign ==
    /\ today = 1
    /\ employees = [e \in {"e1", "e2"} |->
                      [is_active |-> TRUE,
                       hire_date |-> IF e = "e1" THEN 0 ELSE 1,
                       resignation_date |-> NULL]]
    /\ jobs = [j \in Jobs |-> [is_active |-> (j = "dev")]]
    /\ leave_types = [lt \in LeaveTypes |-> [annual_allocation |-> MaxAlloc]]
    /\ statuses = <<>>
    /\ balances = [k \in {} |-> 0]
    /\ leaves = <<>>
    /\ reqs = Idle
    /\ ledger0 = balances

NextAssign ==
    \/ \E emp \in DOMAIN employees, job \in Jobs, s \in OptDates, sal \in Salaries :
          AssignJob(emp, job, s, sal)
    \/ \E emp \in DOMAIN employees, d \in OptDates, inactive \in BOOLEAN :
          Terminate(emp, d, inactive)
    \/ \E emp \in DOMAIN employees, d \in OptDates : TerminateFails(emp, d)
    \/ \E emp \in DOMAIN employees, job \in Jobs, s \in OptDates, e \in OptDates,
          sal \in Salaries : CreateStatus(emp, job, s, e, sal)
    \/ \E pk \in DOMAIN statuses, c \in BOOLEAN, e \in OptDates :
          UpdateStatus(pk, c, e)
    \/ Tick

\* The assignment history of the backend variant, one request at a time.
SpecAssign == InitAssign /\ [][NextAssign]_vars

\* ------------------------------- backend: assign_job, statement by statement
\* The request of worker w: the row it is creating and the rows its UPDATE
\* has closed inside its transaction.
AssignReq(pc, row, closed, exc) ==
    [op |-> "assign_job", pc |-> pc, row |-> row, closed |-> closed, exc |-> exc]

\* assign_job up to the test of employee.get_current_status().
AssignCheck(w, emp, job, start_date, salary) ==
    /\ reqs[w].pc = "idle"
    /\ LET row == [employee |-> emp, job |-> job,
                   start_date |-> IF start_date = NULL THEN today ELSE start_date[1],
                   end_date |-> NULL, salary |-> salary, is_current |-> TRUE]
           bad == \/ start_date # NULL /\ start_date[1] > today
                  \/ ~jobs[job].is_active
                  \/ ~employees[emp].is_active
                  \/ current_statuses(statuses, emp) # {}
       IN reqs' = [reqs EXCEPT ![w] =
                     IF bad THEN AssignReq("done", <<row>>, {}, "BadRequest")
                     ELSE AssignReq("clean", <<row>>, {}, "none")]
    /\ UNCHANGED <<today, employees, jobs, leave_types, statuses, balances, leaves, ledger0>>

\* EmployeeStatus.save, first statement: self.full_clean().
AssignClean(w) ==
    /\ reqs[w].pc = "clean"
    /\ LET row == reqs[w].row[1]
           bad == \/ EmployeeStatus_clean(row) # {}
                  \/ ~unique_current_status_per_employee(statuses, row, Len(statuses) + 1)
       IN reqs' = [reqs EXCEPT ![w] =
                     IF bad THEN AssignReq("done", <<row>>, {}, "ValidationError")
                     ELSE AssignReq("close", <<row>>, {}, "none")]
    /\ UNCHANGED <<today, employees, jobs, leave_types, statuses, balances, leaves, ledger0>>

\* EmployeeStatus.save, second statement: the UPDATE of the other current
\* rows, which stays inside the transaction until it commits.
AssignClose(w) ==
    /\ reqs[w].pc = "close"
    /\ reqs' = [reqs EXCEPT ![w] =
                  AssignReq("insert", reqs[w].row,
                            current_statuses(statuses, reqs[w].row[1].employee), "none")]
    /\ UNCHANGED <<today, employees, jobs, leave_types, statuses, balances, leaves, ledger0>>

\* super().save() and the end of transaction.atomic(): the INSERT under the
\* table's constraint; the transaction commits with its UPDATE, or rolls back.
insert(st, row, closed, now) ==
    LET st1 == [i \in DOMAIN st |->
                  IF i \in closed
                  THEN [st[i] EXCEPT !.is_current = FALSE, !.end_date = <<now>>]
                  ELSE st[i]]
    IN IF unique_current_status_per_employee(st1, row, Len(st) + 1)
       THEN [exc |-> "none", statuses |-> Append(st1, row)]
       ELSE [exc |-> "IntegrityError", statuses |-> st]

AssignInsert(w) ==
    /\ reqs[w].pc = "insert"
    /\ LET r == insert(statuses, reqs[w].row[1], reqs[w].closed, today)
       IN /\ statuses' = r.statuses
          /\ reqs' = [reqs EXCEPT ![w] =
                        AssignReq("done", reqs[w].row, reqs[w].closed, r.exc)]
    /\ UNCHANGED <<today, employees, jobs, leave_types, balances, leaves, ledger0>>

NextConcAssign ==
    \/ \E w \in Workers, emp \in DOMAIN employees, job \in Jobs, s \in OptDates,
          sal \in Salaries : AssignCheck(w, emp, job, s, sal)
    \/ \E w \in Workers : AssignClean(w)
    \/ \E w \in Workers : AssignClose(w)
    \/ \E w \in Workers : AssignInsert(w)
    \/ Tick

\* Two assign_job requests, their statements interleaved.
SpecConcAssign == InitAssign /\ [][NextConcAssign]_vars

\* ------------------------------ backend: leave requests, any allocation
\* As Init, the annual allocation of the leave type being any number of
\* days from 1 to MaxAlloc.
InitAlloc ==
    /\ today = 0
    /\ employees = [e \in Emps |->
                      [is_active |-> TRUE, hire_date |-> 0, resignation_date |-> NULL]]
    /\ jobs = [j \in {"dev"} |-> [is_active |-> TRUE]]
    /\ \E a \in 1..MaxAlloc :
          leave_types = [lt \in LeaveTypes |-> [annual_allocation |-> a]]
    /\ statuses = <<>>
    /\ balances = [k \in {} |-> 0]
    /\ leaves = <<>>
    /\ reqs = Idle
    /\ ledger0 = balances

\* The leave requests of the backend variant, one request at a time, under
\* each allocation.
SpecAlloc == InitAlloc /\ [][Next]_vars

\* ------------------------------ backend: leave requests and termination
\* One active employee hired on day 0, an active and an inactive job, no
\* assignment, no leave, no balance row.
InitDeactivate ==
    /\ today = 0
    /\ employees = [e \in Emps |->
                      [is_active |-> TRUE, hire_date |-> 0, resignation_date |-> NULL]]
    /\ jobs = [j \in Jobs |-> [is_active |-> (j = "dev")]]
    /\ leave_types = [lt \in LeaveTypes |-> [annual_allocation |-> MaxAlloc]]
    /\ statuses = <<>>
    /\ balances = [k \in {} |-> 0]
    /\ leaves = <<>>
    /\ reqs = Idle
    /\ ledger0 = balances

NextDeactivate ==
    \/ \E emp \in DOMAIN employees, job \in Jobs, s \in OptDates, sal \in Salaries :
          AssignJob(emp, job, s, sal)
    \/ \E emp \in DOMAIN employees, d \in OptDates, inactive \in BOOLEAN :
          Terminate(emp, d, inactive)
    \/ \E emp \in DOMAIN employees, lt \in LeaveTypes, s \in Dates, e \in Dates :
          CreateLeave(emp, lt, s, e)
    \/ Tick

\* Leave submissions of an employee who is assigned a job and terminated.
SpecDeactivate == InitDeactivate /\ [][NextDeactivate]_vars

\* ------------------------------------------ HRManagement: leave applications
\* errors.append(m) when the check c fails.
appended(c, m) == IF c THEN <<m>> ELSE <<>>

\* HRManagement Employee.get_leave_balance: a stored LeaveBalance row is read
\* through available_days, which the model class does not define; without a
\* row, the allocation less the approved days of the year, not below zero.
HRManagement_get_leave_balance(lv, bal, emp, lt, year) ==
    IF <<emp, lt, year>> \in DOMAIN bal
    THEN [exc |-> "AttributeError", value |-> 0]
    ELSE LET left == leave_types[lt].annual_allocation - consumed_days(lv, emp, lt, year)
         IN [exc |-> "none", value |-> IF left < 0 THEN 0 ELSE left]

\* self.leaves.filter(Q(status='PENDING') | Q(status='APPROVED'),
\*                    start_date__lte=end_date, end_date__gte=start_date)
HRManagement_overlapping(lv, emp, start_date, end_date) ==
    {i \in DOMAIN lv : /\ lv[i].employee = emp
                       /\ lv[i].status \in {"PENDING", "APPROVED"}
                       /\ lv[i].start_date <= end_date
                       /\ lv[i].end_date >= start_date}

\* HRManagement Employee.can_apply_leave.  The messages of the two policy
\* checks are formatted with leave_type.name, which LeaveType does not
\* define: building either of them raises AttributeError.
HRManagement_can_apply_leave(lv, bal, emp, start_date, end_date, lt, now) ==
    LET self == employees[emp]
        leave_type == leave_types[lt]
        days_requested == (end_date - start_date) + 1
        current_balance == HRManagement_get_leave_balance(lv, bal, emp, lt, YearOf(start_date))
        notice_days == start_date - now
        errors ==
            appended(~self.is_active, "inactive_employee")
            \o appended(start_date < self.hire_date, "before_joining")
            \o appended(self.resignation_date # NULL
                        /\ start_date > self.resignation_date[1], "after_resignation")
            \o appended(end_date < start_date, "end_before_start")
            \o appended(start_date < now, "past")
            \o appended(~leave_type.is_active, "leave_type_inactive")
            \o appended(days_requested > current_balance.value, "insufficient_balance")
            \o appended(HRManagement_overlapping(lv, emp, start_date, end_date) # {},
                        "overlap")
    IN IF current_balance.exc # "none"
          \/ days_requested > leave_type.max_consecutive_days
          \/ notice_days < leave_type.min_notice_days
       THEN [exc |-> "AttributeError", can_apply |-> FALSE, errors |-> <<>>]
       ELSE [exc |-> "none", can_apply |-> (Len(errors) = 0), errors |-> errors]

\* HRManagement LeaveManagement.save of a new application: full_clean runs
\* clean, which raises ValidationError with the errors of can_apply_leave.
HRManagement_save(lv, bal, emp, lt, start_date, end_date, now) ==
    LET r == HRManagement_can_apply_leave(lv, bal, emp, start_date, end_date, lt, now)
    IN IF r.exc # "none" THEN [exc |-> r.exc, leaves |-> lv]
       ELSE IF ~r.can_apply THEN [exc |-> "ValidationError", leaves |-> lv]
       ELSE [exc |-> "none", leaves |-> Append(lv, new_leave(emp, lt, start_date, end_date))]

\* HRManagement LeaveManagement.cancel: no ledger behind it.
HRManagement_cancel(lv, l, now) ==
    IF lv[l].status \notin {"PENDING", "APPROVED"}
    THEN [exc |-> "ValidationError", leaves |-> lv]
    ELSE IF lv[l].status = "APPROVED" /\ lv[l].start_date <= now
    THEN [exc |-> "ValidationError", leaves |-> lv]
    ELSE [exc |-> "none", leaves |-> [lv EXCEPT ![l].status = "CANCELLED"]]

HRCreateLeave(emp, lt, start_date, end_date) ==
    /\ Len(leaves) < MaxLeaves
    /\ leaves' = HRManagement_save(leaves, balances, emp, lt, start_date, end_date, today).leaves
    /\ UNCHANGED <<today, employees, jobs, leave_types, statuses, balances, reqs, ledger0>>

\* DELETE leaves/{id}/ : perform_destroy.
HRCancelLeave(l) ==
    /\ leaves' = HRManagement_cancel(leaves, l, today).leaves
    /\ UNCHANGED <<today, employees, jobs, leave_types, statuses, balances, reqs, ledger0>>

\* One employee and one leave type, their attributes drawn from the values
\* the checks of can_apply_leave tell apart.
InitHR ==
    /\ today = 0
    /\ employees \in [Emps -> [is_active : BOOLEAN, hire_date : {0, 1},
                               resignation_date : {NULL, <<1>>}]]
    /\ jobs = [j \in Jobs |-> [is_active |-> (j = "dev")]]
    /\ leave_types \in [LeaveTypes -> [annual_allocation : {1, MaxAlloc},
                                       is_active : BOOLEAN,
                                       max_consecutive_days : {1, MaxAlloc},
                                       min_notice_days : {0, 1}]]
    /\ statuses = <<>>
    /\ balances = [k \in {} |-> 0]
    /\ leaves = <<>>
    /\ reqs = Idle
    /\ ledger0 = balances

NextHR ==
    \/ \E emp \in DOMAIN employees, lt \in LeaveTypes, s \in Dates, e \in Dates :
          HRCreateLeave(emp, lt, s, e)
    \/ \E l \in DOMAIN leaves : HRCancelLeave(l)
    \/ Tick

\* The leave applications of the HRManagement variant.
SpecHR == InitHR /\ [][NextHR]_vars

\* ------------------------------------------ HRManagement: EmployeeStatus
\* HRManagement Employee.get_current_status: statuses.filter(
\* start_date__lte=today, end_date__isnull=True, is_current=True).first()
HRManagement_get_current_status(st, emp, now) ==
    {i \in DOMAIN st : /\ st[i].employee = emp
                       /\ st[i].start_date <= now
                       /\ st[i].end_date = NULL
                       /\ st[i].is_current}

\* HRManagement EmployeeStatus.save, the manager left unset: full_clean with
\* the validation of the constraint, closing the other current rows, write.
HRManagement_EmployeeStatus_save(st, row, pk, now) ==
    LET st1 == IF row.is_current THEN others_closed(st, row, pk, now) ELSE st
    IN IF EmployeeStatus_clean(row) # {}
          \/ ~unique_current_status_per_employee(st, row, pk)
       THEN [exc |-> "ValidationError", statuses |-> st]
       ELSE IF ~unique_current_status_per_employee(st1, row, pk)
       THEN [exc |-> "IntegrityError", statuses |-> st]
       ELSE [exc |-> "none", statuses |-> written(st1, row, pk)]

\* The two saves assign_job and transfer make inside transaction.atomic():
\* the current row gets its end_date (is_current is not touched), then a new
\* row is created with is_current at its default, True.  A failing save
\* rolls both back.
HRManagement_close_and_create(st, cur, row, now) ==
    LET pk == CHOOSE i \in cur : TRUE
        s1 == IF cur = {} THEN [exc |-> "none", statuses |-> st]
              ELSE HRManagement_EmployeeStatus_save(st,
                      [st[pk] EXCEPT !.end_date = <<row.start_date>>], pk, now)
        s2 == HRManagement_EmployeeStatus_save(s1.statuses, row,
                                               Len(s1.statuses) + 1, now)
    IN IF s1.exc # "none" THEN [exc |-> s1.exc, statuses |-> st]
       ELSE IF s2.exc # "none" THEN [exc |-> s2.exc, statuses |-> st]
       ELSE s2

\* HRManagement POST employees/{id}/assign_job/
HRManagement_assign_job(st, emp, job, start_date, salary, now) ==
    IF start_date # NULL /\ start_date[1] > now
    THEN [exc |-> "BadRequest", statuses |-> st]
    ELSE HRManagement_close_and_create(st,
            HRManagement_get_current_status(st, emp, now),
            [employee |-> emp, job |-> job,
             start_date |-> IF start_date = NULL THEN now ELSE start_date[1],
             end_date |-> NULL, salary |-> salary, is_current |-> TRUE],
            now)

\* HRManagement POST employees/{id}/transfer/ without manager_id.
transfer(st, emp, effective_date, now) ==
    LET cur == HRManagement_get_current_status(st, emp, now)
        current_status == st[CHOOSE i \in cur : TRUE]
    IN IF cur = {} THEN [exc |-> "BadRequest", statuses |-> st]
       ELSE HRManagement_close_and_create(st, cur,
               [employee |-> emp, job |-> current_status.job,
                start_date |-> IF effective_date = NULL THEN now
                               ELSE effective_date[1],
                end_date |-> NULL, salary |-> current_status.salary,
                is_current |-> TRUE],
               now)

\* HRManagement POST employees/{id}/terminate/
HRManagement_terminate(st, emps, emp, end_date, set_inactive, now) ==
    LET cur == HRManagement_get_current_status(st, emp, now)
        pk == CHOOSE i \in cur : TRUE
        d == IF end_date = NULL THEN now ELSE end_date[1]
        s == HRManagement_EmployeeStatus_save(st,
                [st[pk] EXCEPT !.end_date = <<d>>], pk, now)
        e1 == [emps[emp] EXCEPT !.is_active = FALSE, !.resignation_date = <<d>>]
    IN IF cur = {}
       THEN [exc |-> "BadRequest", statuses |-> st, employees |-> emps]
       ELSE IF s.exc # "none"
       THEN [exc |-> s.exc, statuses |-> st, employees |-> emps]
       ELSE IF set_inactive /\ Employee_clean(e1, now) # {}
       THEN [exc |-> "ValidationError", statuses |-> st, employees |-> emps]
       ELSE [exc |-> "none", statuses |-> s.statuses,
             employees |-> IF set_inactive THEN [emps EXCEPT ![emp] = e1] ELSE emps]

HRAssignJob(emp, job, start_date, salary) ==
    /\ Len(statuses) < MaxStatuses
    /\ statuses' = HRManagement_assign_job(statuses, emp, job, start_date,
                                           salary, today).statuses
    /\ UNCHANGED <<today, employees, jobs, leave_types, balances, leaves, reqs, ledger0>>

HRTransfer(emp, effective_date) ==
    /\ Len(statuses) < MaxStatuses
    /\ statuses' = transfer(statuses, emp, effective_date, today).statuses
    /\ UNCHANGED <<today, employees, jobs, leave_types, balances, leaves, reqs, ledger0>>

HRTerminate(emp, end_date, set_inactive) ==
    /\ LET r == HRManagement_terminate(statuses, employees, emp, end_date,
                                       set_inactive, today)
       IN statuses' = r.statuses /\ employees' = r.employees
    /\ UNCHANGED <<today, jobs, leave_types, balances, leaves, reqs, ledger0>>

NextHRAssign ==
    \/ \E emp \in DOMAIN employees, job \in Jobs, s \in OptDates, sal \in Salaries :
          HRAssignJob(emp, job, s, sal)
    \/ \E emp \in DOMAIN employees, d \in OptDates : HRTransfer(emp, d)
    \/ \E emp \in DOMAIN employees, d \in OptDates, inactive \in BOOLEAN :
          HRTerminate(emp, d, inactive)
    \/ Tick

\* The assignment history of the HRManagement variant.
SpecHRAssign == InitAssign /\ [][NextHRAssign]_vars

\* ------------------------------------------------------------------ claims

\* C1 (backend): in every state reachable by assign_job, terminate and the
\* creation or saving of EmployeeStatus rows, each employee has at most one
\* EmployeeStatus row with is_current = true.
C1_OneCurrentStatus ==
    \A emp \in DOMAIN employees :
        Cardinality(current_statuses(statuses, emp)) <= 1

\* An employee with a current row next to a row that a save has closed.
C1_Witness ==
    \E i \in DOMAIN statuses, j \in DOMAIN statuses :
        /\ i # j
        /\ statuses[i].employee = statuses[j].employee
        /\ statuses[i].is_current
        /\ ~statuses[j].is_current
        /\ statuses[j].end_date # NULL

Pending(lv) == {l \in DOMAIN lv : lv[l].status = "PENDING"}

\* C2 (backend): for every PENDING leave, a successful approve followed by a successful
\* cancel (the same day or later) leaves the balance row of the leave's
\* (employee, leave_type, year) at the value it had before the approve, the
\* annual allocation if there was no row.
C2_ApproveThenCancelRestores ==
    \A l \in Pending(leaves) : \A t \in Dates :
        LET a == approve(leaves, balances, l, today)
            c == cancel(a.leaves, a.balances, l, t)
        IN (t >= today /\ a.exc = "none" /\ c.exc = "none") =>
              /\ KeyOf(leaves[l]) \in DOMAIN c.balances
              /\ c.balances[KeyOf(leaves[l])] =
                    available_balance(balances, leaves[l].employee,
                                      leaves[l].leave_type, leaves[l].year)
              /\ c.leaves[l].status = "CANCELLED"

\* A leave that was approved and then cancelled (cancel keeps validated_on),
\* with its balance row back at the allocation.
C2_Witness ==
    \E l \in DOMAIN leaves :
        /\ leaves[l].status = "CANCELLED"
        /\ leaves[l].validated_on # NULL
        /\ KeyOf(leaves[l]) \in DOMAIN balances
        /\ balances[KeyOf(leaves[l])] = leave_types[leaves[l].leave_type].annual_allocation

Unchanged(r) == r.leaves = leaves /\ r.balances = balances

\* C3 (backend): approve and reject of a leave that is not PENDING, and cancel of a
\* leave that is neither PENDING nor APPROVED, raise ValidationError and
\* leave the leave table (status, validated_on) and every balance unchanged.
C3_BadTransitionRaises ==
    \A l \in DOMAIN leaves :
        /\ leaves[l].status # "PENDING" =>
              /\ approve(leaves, balances, l, today).exc = "ValidationError"
              /\ Unchanged(approve(leaves, balances, l, today))
              /\ \A reason \in Reasons :
                    /\ reject(leaves, balances, l, reason, today).exc = "ValidationError"
                    /\ Unchanged(reject(leaves, balances, l, reason, today))
        /\ leaves[l].status \notin {"PENDING", "APPROVED"} =>
              /\ cancel(leaves, balances, l, today).exc = "ValidationError"
              /\ Unchanged(cancel(leaves, balances, l, today))

\* An approved, a rejected and a cancelled leave have been produced.
C3_Witness ==
    /\ \E l \in DOMAIN leaves :
          /\ leaves[l].status = "REJECTED"
          /\ approve(leaves, balances, l, today).exc = "ValidationError"
    /\ \E l \in DOMAIN leaves :
          /\ leaves[l].status \in {"APPROVED", "CANCELLED"}
          /\ leaves[l].validated_on # NULL

Overlap(a, b) == a.start_date <= b.end_date /\ a.end_date >= b.start_date

Live(row) == row.status \in {"PENDING", "APPROVED"}

\* C4 (backend): no two PENDING/APPROVED leaves of one employee overlap, and a
\* submission overlapping a PENDING/APPROVED leave of the employee is
\* refused by the serializer (non_field_errors) and stores nothing.
C4_NoOverlap ==
    /\ \A i, j \in DOMAIN leaves :
          (i # j /\ leaves[i].employee = leaves[j].employee
                 /\ Live(leaves[i]) /\ Live(leaves[j]))
             => ~Overlap(leaves[i], leaves[j])
    /\ \A emp \in DOMAIN employees, s \in Dates, e \in Dates :
          (s <= e /\ s >= today
               /\ \E i \in DOMAIN leaves :
                     /\ leaves[i].employee = emp /\ Live(leaves[i])
                     /\ leaves[i].start_date <= e /\ leaves[i].end_date >= s)
             => validate(leaves, emp, s, e, today) = "non_field_errors"

\* Two live leaves of one employee exist side by side.
C4_Witness ==
    \E i, j \in DOMAIN leaves :
        /\ i # j
        /\ leaves[i].employee = leaves[j].employee
        /\ leaves[i].status = "APPROVED"
        /\ leaves[j].status = "PENDING"

\* The request of worker w has ended, whatever its outcome.
Ended(w, o) == reqs[w].pc = "done" /\ reqs[w].op = o

\* C5 (backend): approve never ends half-applied, also when it fails between
\* its two writes: once the request has ended, the ledger row carries the
\* debit exactly when the stored status is APPROVED; and for the cancel of
\* an approved leave, the credit exactly when the stored status is CANCELLED.
C5_NeverHalfApplied ==
    \A w \in Workers :
        LET l == reqs[w].l
            row == leaves[l]
            before == available_balance(ledger0, row.employee, row.leave_type, row.year)
            after == available_balance(balances, row.employee, row.leave_type, row.year)
        IN /\ Ended(w, "approve") =>
                ((after = before - row.days_requested) <=> row.status = "APPROVED")
           /\ (Ended(w, "cancel") /\ reqs[w].self[1].status = "APPROVED") =>
                ((after = before + row.days_requested) <=> row.status = "CANCELLED")

\* C6 (backend): when two concurrent approvals of two different PENDING
\* leaves of one (employee, leave type, year) both succeed, the balance ends
\* at its initial value minus the days of both leaves.
C6_NoLostUpdate ==
    \A w \in Workers, v \in Workers :
        (/\ w # v
         /\ Ended(w, "approve") /\ reqs[w].exc = "none"
         /\ Ended(v, "approve") /\ reqs[v].exc = "none"
         /\ reqs[w].l # reqs[v].l
         /\ KeyOf(leaves[reqs[w].l]) = KeyOf(leaves[reqs[v].l]))
        => LET row == leaves[reqs[w].l]
           IN available_balance(balances, row.employee, row.leave_type, row.year)
                 = available_balance(ledger0, row.employee, row.leave_type, row.year)
                   - row.days_requested - leaves[reqs[v].l].days_requested

\* C7 (backend): with two assign_job requests for one employee interleaved
\* statement by statement, no state holds two rows of the employee with
\* is_current = true, and an INSERT that would create the second one is
\* refused by the table's uniqueness constraint, nothing being written.
C7_ConcurrentAssign ==
    /\ \A emp \in DOMAIN employees :
          Cardinality(current_statuses(statuses, emp)) <= 1
    /\ \A w \in Workers :
          (/\ reqs[w].op = "assign_job" /\ reqs[w].pc = "insert"
           /\ current_statuses(statuses, reqs[w].row[1].employee) \ reqs[w].closed # {})
          => LET r == insert(statuses, reqs[w].row[1], reqs[w].closed, today)
             IN r.exc = "IntegrityError" /\ r.statuses = statuses

\* One request has inserted the current row, the other one's INSERT was
\* refused.
C7_Witness ==
    \E w \in Workers, v \in Workers :
        /\ reqs[w].op = "assign_job" /\ reqs[v].op = "assign_job"
        /\ reqs[w].pc = "done" /\ reqs[w].exc = "none"
        /\ reqs[v].pc = "done" /\ reqs[v].exc = "IntegrityError"
        /\ reqs[w].row[1].employee = reqs[v].row[1].employee
        /\ Cardinality(current_statuses(statuses, reqs[w].row[1].employee)) = 1

\* C8 (backend): the insufficient-balance branch of can_apply_leave is taken exactly
\* when the requested days exceed the stored balance (the allocation when
\* there is no row).
C8_BalanceCheckUsesStoredBalance ==
    \A emp \in DOMAIN employees, lt \in LeaveTypes, s \in Dates, e \in Dates :
        s <= e =>
            (insufficient_balance(leaves, balances, emp, lt, s, e)
                <=> (e - s) + 1 > available_balance(balances, emp, lt, YearOf(s)))

\* C9 (backend): cancel of an APPROVED leave that has started (start_date <= today)
\* raises and changes nothing; cancel of a PENDING leave succeeds on any day.
C9_CancelStarted ==
    \A l \in DOMAIN leaves :
        /\ (leaves[l].status = "APPROVED" /\ leaves[l].start_date <= today) =>
              /\ cancel(leaves, balances, l, today).exc = "ValidationError"
              /\ Unchanged(cancel(leaves, balances, l, today))
        /\ leaves[l].status = "PENDING" =>
              \A t \in Dates :
                 /\ cancel(leaves, balances, l, t).exc = "none"
                 /\ cancel(leaves, balances, l, t).leaves[l].status = "CANCELLED"
                 /\ cancel(leaves, balances, l, t).balances = balances

\* An approved leave that has started, next to a pending leave whose start
\* date has passed.
C9_Witness ==
    /\ \E l \in DOMAIN leaves :
          leaves[l].status = "APPROVED" /\ leaves[l].start_date <= today
    /\ \E l \in DOMAIN leaves :
          leaves[l].status = "PENDING" /\ leaves[l].start_date < today

\* C10 (HRManagement): can_apply_leave does not stop at the first failure:
\* it returns (violations is empty, violations), violations holding one
\* message for every violated check, in the order employee active, hire and
\* resignation bounds, end >= start, start not in the past, leave type
\* active, max consecutive days, notice period, balance, overlap.
C10_AllViolationsReported ==
    \A emp \in DOMAIN employees, lt \in LeaveTypes, s \in Dates, e \in Dates :
        LET r == HRManagement_can_apply_leave(leaves, balances, emp, s, e, lt, today)
            days == (e - s) + 1
            violations ==
                appended(~employees[emp].is_active, "inactive_employee")
                \o appended(s < employees[emp].hire_date, "before_joining")
                \o appended(employees[emp].resignation_date # NULL
                            /\ s > employees[emp].resignation_date[1], "after_resignation")
                \o appended(e < s, "end_before_start")
                \o appended(s < today, "past")
                \o appended(~leave_types[lt].is_active, "leave_type_inactive")
                \o appended(days > leave_types[lt].max_consecutive_days, "max_consecutive")
                \o appended(s - today < leave_types[lt].min_notice_days, "notice")
                \o appended(days > HRManagement_get_leave_balance(
                                      leaves, balances, emp, lt, YearOf(s)).value,
                            "insufficient_balance")
                \o appended(HRManagement_overlapping(leaves, emp, s, e) # {}, "overlap")
        IN /\ r.exc = "none"
           /\ r.errors = violations
           /\ r.can_apply = (violations = <<>>)

\* C11 (backend): every stored leave application has days_requested =
\* (end_date - start_date) + 1 and year = start_date.year: each save
\* recomputes them from the dates it writes.
C11_DaysRequestedRecomputed ==
    \A l \in DOMAIN leaves :
        /\ leaves[l].days_requested = (leaves[l].end_date - leaves[l].start_date) + 1
        /\ leaves[l].year = YearOf(leaves[l].start_date)

\* An approved leave whose dates were edited afterwards (it starts before
\* the day it was approved) and spans more than one day.
C11_Witness ==
    \E l \in DOMAIN leaves :
        /\ leaves[l].status = "APPROVED"
        /\ leaves[l].start_date < leaves[l].validated_on[1]
        /\ leaves[l].days_requested >= 2

\* C12 (backend): saving a new leave application stores it with status
\* PENDING when the validator admits it, and otherwise raises
\* ValidationError with the violations and stores no leave application.
C12_SubmitStoresOrRaises ==
    \A emp \in DOMAIN employees, lt \in LeaveTypes, s \in Dates, e \in Dates :
        LET v == can_apply_leave(leaves, balances, emp, s, e, lt, today)
            r == LeaveManagement_save(leaves, balances, emp, lt, s, e, today)
        IN IF v.exc = "none" /\ v.can_apply
           THEN /\ r.exc = "none"
                /\ Len(r.leaves) = Len(leaves) + 1
                /\ SubSeq(r.leaves, 1, Len(leaves)) = leaves
                /\ r.leaves[Len(r.leaves)].status = "PENDING"
           ELSE /\ r.exc = "ValidationError"
                /\ r.leaves = leaves

\* C13 (backend): a successful approve of a PENDING leave sets its status to
\* APPROVED, sets validated_on, and lowers the stored balance of the leave's
\* (employee, leave_type, year) by exactly days_requested; no other balance
\* row and no other leave changes.
C13_ApproveDebits ==
    \A l \in Pending(leaves) :
        LET a == approve(leaves, balances, l, today)
            row == leaves[l]
        IN a.exc = "none" =>
              /\ a.leaves[l] = [row EXCEPT !.status = "APPROVED",
                                           !.validated_on = <<today>>]
              /\ \A i \in DOMAIN leaves \ {l} : a.leaves[i] = leaves[i]
              /\ DOMAIN a.balances = DOMAIN balances \cup {KeyOf(row)}
              /\ a.balances[KeyOf(row)] =
                    available_balance(balances, row.employee, row.leave_type, row.year)
                       - row.days_requested
              /\ \A k \in DOMAIN balances \ {KeyOf(row)} : a.balances[k] = balances[k]

\* An approved leave charged to its own year, next to the untouched balance
\* row of another year.
C13_Witness ==
    \E l \in DOMAIN leaves :
        /\ leaves[l].status = "APPROVED"
        /\ leaves[l].validated_on # NULL
        /\ KeyOf(leaves[l]) \in DOMAIN balances
        /\ balances[KeyOf(leaves[l])] =
              leave_types[leaves[l].leave_type].annual_allocation - leaves[l].days_requested
        /\ \E k \in DOMAIN balances :
              /\ k # KeyOf(leaves[l])
              /\ balances[k] = leave_types[k[2]].annual_allocation

\* C14 (backend): reject of a PENDING leave fails when rejection_reason is
\* empty or only whitespace, the leave staying PENDING and nothing else
\* changing; with any other reason it sets status REJECTED, stores the
\* reason and sets validated_on, touching no balance.
C14_RejectNeedsReason ==
    \A l \in Pending(leaves), reason \in Reasons :
        LET r == reject(leaves, balances, l, reason, today)
        IN IF \A i \in DOMAIN reason : reason[i] = " "
           THEN r.exc = "ValidationError" /\ Unchanged(r)
           ELSE /\ r.exc = "none"
                /\ r.leaves = [leaves EXCEPT ![l] =
                                  [@ EXCEPT !.status = "REJECTED",
                                            !.rejection_reason = <<reason>>,
                                            !.validated_on = <<today>>]]
                /\ r.balances = balances

\* A rejected leave carrying its reason, next to a leave still PENDING.
C14_Witness ==
    /\ \E l \in DOMAIN leaves :
          /\ leaves[l].status = "REJECTED"
          /\ leaves[l].rejection_reason # NULL
          /\ leaves[l].validated_on # NULL
    /\ Pending(leaves) # {}

\* C15 (backend): assign_job fails, creating and modifying no EmployeeStatus
\* row, whenever the employee is inactive, the job is inactive or the
\* employee already has a current assignment; whatever its outcome it leaves
\* every existing row, the current assignment included, as it was.
C15_AssignJobRefuses ==
    \A emp \in DOMAIN employees, job \in Jobs, s \in OptDates, sal \in Salaries :
        LET r == assign_job(statuses, emp, job, s, sal, today)
        IN /\ (\/ ~employees[emp].is_active
               \/ ~jobs[job].is_active
               \/ current_statuses(statuses, emp) # {})
              => (r.exc = "BadRequest" /\ r.statuses = statuses)
           /\ \A i \in DOMAIN statuses : r.statuses[i] = statuses[i]

\* One employee holds a current assignment and one has been deactivated.
C15_Witness ==
    /\ \E emp \in DOMAIN employees : current_statuses(statuses, emp) # {}
    /\ \E emp \in DOMAIN employees : ~employees[emp].is_active

Terminated(r, emp, pk, d, set_inactive) ==
    /\ r.exc = "none"
    /\ r.statuses = [statuses EXCEPT ![pk].end_date = <<d>>,
                                     ![pk].is_current = FALSE]
    /\ r.employees = IF set_inactive
                     THEN [employees EXCEPT ![emp].is_active = FALSE,
                                            ![emp].resignation_date = <<d>>]
                     ELSE employees

\* A terminate whose employee update fails has changed nothing.
RolledBack(emp, d) ==
    LET f == terminate_failing(statuses, employees, emp, d, TRUE, today)
    IN f.exc # "none" /\ f.statuses = statuses /\ f.employees = employees

\* C17 (backend), as stated: terminate fails when the employee has no
\* current assignment; otherwise it sets the current assignment's end_date
\* to the given date and is_current to false and, with set_inactive, the
\* employee inactive with that resignation_date; a failing employee update
\* rolls the assignment change back.
C17_TerminateAsStated ==
    \A emp \in DOMAIN employees, d \in OptDates, inactive \in BOOLEAN :
        LET cur == current_statuses(statuses, emp)
            pk == CHOOSE i \in cur : TRUE
            day == IF d = NULL THEN today ELSE d[1]
            r == terminate(statuses, employees, emp, d, inactive, today)
        IN IF cur = {}
           THEN /\ r.exc = "BadRequest"
                /\ r.statuses = statuses /\ r.employees = employees
           ELSE Terminated(r, emp, pk, day, inactive) /\ RolledBack(emp, d)

\* C17 (backend), amended: as stated when the given date is not before the
\* start of the current assignment; with an earlier date terminate raises
\* ValidationError and changes neither the assignment nor the employee.
C17_TerminateValidDate ==
    \A emp \in DOMAIN employees, d \in OptDates, inactive \in BOOLEAN :
        LET cur == current_statuses(statuses, emp)
            pk == CHOOSE i \in cur : TRUE
            day == IF d = NULL THEN today ELSE d[1]
            r == terminate(statuses, employees, emp, d, inactive, today)
        IN IF cur = {}
           THEN /\ r.exc = "BadRequest"
                /\ r.statuses = statuses /\ r.employees = employees
           ELSE IF day < statuses[pk].start_date
           THEN /\ r.exc = "ValidationError"
                /\ r.statuses = statuses /\ r.employees = employees
           ELSE Terminated(r, emp, pk, day, inactive) /\ RolledBack(emp, d)

\* One employee has been terminated and deactivated on the day its
\* assignment ended, and another holds a current assignment that started
\* after day 0, so that an earlier end date can be given.
C17_Witness ==
    /\ \E i \in DOMAIN statuses :
          /\ ~statuses[i].is_current
          /\ ~employees[statuses[i].employee].is_active
          /\ statuses[i].end_date # NULL
          /\ employees[statuses[i].employee].resignation_date = statuses[i].end_date
    /\ \E i \in DOMAIN statuses :
          statuses[i].is_current /\ statuses[i].start_date > 0

\* C18 (backend): for every stored leave, whatever its status, and every
\* current date, can_be_cancelled answers true exactly when cancel, called
\* in the same state, succeeds.  can_be_cancelled reads the row and the
\* clock and writes nothing.
C18_CanBeCancelledIffCancels ==
    \A l \in DOMAIN leaves, now \in Dates :
        can_be_cancelled(leaves, l, now)
            <=> (cancel(leaves, balances, l, now).exc = "none")

\* Two approved leaves, one that has started and one that has not: the
\* answers differ within one state.
C18_Witness ==
    \E l1 \in DOMAIN leaves, l2 \in DOMAIN leaves :
        /\ leaves[l1].status = "APPROVED" /\ leaves[l1].start_date <= today
        /\ leaves[l2].status = "APPROVED" /\ leaves[l2].start_date > today
        /\ ~can_be_cancelled(leaves, l1, today)
        /\ can_be_cancelled(leaves, l2, today)

\* C19 (backend): a ledger debit or credit on a key that has no balance row
\* leaves a row holding the leave type's annual allocation plus the signed
\* delta; on a key that has a row it leaves the old balance plus the delta.
\* No other row is created or changed.
C19_LedgerSeedsAllocation ==
    \A emp \in Emps, lt \in LeaveTypes, d \in Dates, delta \in (0 - MaxAlloc)..MaxAlloc :
        LET key == <<emp, lt, YearOf(d)>>
            b == _update_leave_balance(balances, emp, lt, YearOf(d), delta)
        IN /\ DOMAIN b = DOMAIN balances \cup {key}
           /\ b[key] = (IF key \in DOMAIN balances
                        THEN balances[key]
                        ELSE leave_types[lt].annual_allocation) + delta
           /\ \A k \in DOMAIN balances : k # key => b[k] = balances[k]

\* A credit has reached a key the leave was not debited from (its dates
\* were changed after approval): that row holds more than the allocation,
\* next to the row that was debited.
C19_Witness ==
    /\ \E k \in DOMAIN balances : balances[k] > leave_types[k[2]].annual_allocation
    /\ \E k \in DOMAIN balances : balances[k] < leave_types[k[2]].annual_allocation

\* The status changes of a leave request.
Transitions ==
    {<<"PENDING", "APPROVED">>, <<"PENDING", "REJECTED">>,
     <<"PENDING", "CANCELLED">>, <<"APPROVED", "CANCELLED">>}

\* C20 (backend): in every step a stored leave keeps its status or moves
\* PENDING to APPROVED, PENDING to REJECTED, PENDING to CANCELLED or
\* APPROVED to CANCELLED; a REJECTED or CANCELLED leave keeps its status in
\* every later step, whatever approve, reject and cancel calls follow.
C20_StatusTransitions ==
    [][\A l \in DOMAIN leaves :
          /\ l \in DOMAIN leaves'
          /\ \/ leaves'[l].status = leaves[l].status
             \/ <<leaves[l].status, leaves'[l].status>> \in Transitions
          /\ leaves[l].status \in {"REJECTED", "CANCELLED"}
                => leaves'[l].status = leaves[l].status]_vars

\* One leave was rejected and another was cancelled after its approval.
C20_Witness ==
    \E l1 \in DOMAIN leaves, l2 \in DOMAIN leaves :
        /\ leaves[l1].status = "REJECTED"
        /\ leaves[l2].status = "CANCELLED" /\ leaves[l2].validated_on # NULL

\* C21 (backend): whatever submissions, approvals, rejections and
\* cancellations have run one after the other, every existing balance row
\* holds the annual allocation of its leave type minus the days of the
\* employee's APPROVED leaves of that leave type and year.
C21_BalanceIsAllocationMinusApproved ==
    \A k \in DOMAIN balances :
        balances[k] = leave_types[k[2]].annual_allocation
                         - consumed_days(leaves, k[1], k[2], k[3])

\* A row is debited by an approved leave while another leave was approved
\* and then cancelled.
C21_Witness ==
    /\ \E k \in DOMAIN balances :
          /\ consumed_days(leaves, k[1], k[2], k[3]) > 0
          /\ balances[k] < leave_types[k[2]].annual_allocation
    /\ \E l \in DOMAIN leaves :
          leaves[l].status = "CANCELLED" /\ leaves[l].validated_on # NULL

\* C22 (backend): reject, and cancel of a PENDING leave, leave the table of
\* balance rows as it was, no row created and none modified; the table
\* changes only in an approve that succeeds and in a cancel of an APPROVED
\* leave that succeeds.
C22_OnlyApproveAndCancelApprovedMoveBalance ==
    \A l \in DOMAIN leaves :
        LET a == approve(leaves, balances, l, today)
            c == cancel(leaves, balances, l, today)
        IN /\ \A reason \in Reasons :
                 reject(leaves, balances, l, reason, today).balances = balances
           /\ leaves[l].status = "PENDING"
                 => c.exc = "none" /\ c.balances = balances
           /\ c.balances # balances
                 => c.exc = "none" /\ leaves[l].status = "APPROVED"
           /\ a.balances # balances
                 => a.exc = "none" /\ leaves[l].status = "PENDING"

\* A leave was rejected or cancelled while pending, next to an approved
\* leave whose days are debited.
C22_Witness ==
    /\ \E l \in DOMAIN leaves :
          \/ leaves[l].status = "REJECTED"
          \/ leaves[l].status = "CANCELLED" /\ leaves[l].validated_on = NULL
    /\ \E l \in DOMAIN leaves :
          /\ leaves[l].status = "APPROVED"
          /\ balances[KeyOf(leaves[l])] < leave_types[leaves[l].leave_type].annual_allocation

\* C23 (backend): evaluating eligibility with can_apply_leave creates and
\* modifies no balance row, whether it admits or rejects the request, and a
\* submission that fails leaves the table of balance rows as it was.
C23_CanApplyLeaveIsPure ==
    \A emp \in Emps, lt \in LeaveTypes, s \in Dates, e \in Dates :
        /\ can_apply_leave(leaves, balances, emp, s, e, lt, today).balances
              = balances
        /\ LET r == LeaveManagement_save(leaves, balances, emp, lt, s, e, today)
           IN r.exc # "none" => r.balances = balances

\* C24 (HRManagement): whatever assign_job, transfer and terminate requests
\* have run, every assignment with is_current = true has no end_date, and a
\* terminate that succeeds leaves the employee without a row that has
\* is_current = true.
C24_CurrentHasNoEndDate ==
    /\ \A i \in DOMAIN statuses :
          statuses[i].is_current => statuses[i].end_date = NULL
    /\ \A emp \in DOMAIN employees, d \in OptDates, inactive \in BOOLEAN :
          LET r == HRManagement_terminate(statuses, employees, emp, d,
                                          inactive, today)
          IN r.exc = "none" => current_statuses(r.statuses, emp) = {}

\* C25 (backend): once an employee is inactive, every leave submission of
\* that employee is refused and stores no leave.
C25_InactiveCannotSubmit ==
    \A emp \in DOMAIN employees :
        ~employees[emp].is_active =>
            \A lt \in LeaveTypes, s \in Dates, e \in Dates :
                LET v == validate(leaves, emp, s, e, today)
                    r == LeaveManagement_save(leaves, balances, emp, lt, s, e, today)
                IN v # "valid" \/ (r.exc # "none" /\ r.leaves = leaves)

\* C26 (backend): whatever assignments have been created (assign_job,
\* EmployeeStatus create) and terminated, every assignment that has an
\* end_date has it on or after its start_date, the rows closed when a new
\* current row is saved included.
C26_EndNotBeforeStart ==
    \A i \in DOMAIN statuses :
        statuses[i].end_date # NULL
            => statuses[i].end_date[1] >= statuses[i].start_date

\* An assignment was closed on the day the employee's next, current
\* assignment starts, after its own start.
C26_Witness ==
    \E i \in DOMAIN statuses, j \in DOMAIN statuses :
        /\ statuses[i].employee = statuses[j].employee
        /\ ~statuses[i].is_current /\ statuses[j].is_current
        /\ statuses[i].end_date = <<statuses[j].start_date>>
        /\ statuses[i].start_date < statuses[j].start_date

\* Every balance row lies between zero and the allocation of its leave type.
BalanceWithinAllocation ==
    \A k \in DOMAIN balances :
        0 <= balances[k] /\ balances[k] <= leave_types[k[2]].annual_allocation

\* C27 (backend): whatever submissions, approvals, rejections and
\* cancellations have run one after the other, every balance row lies
\* between zero and the annual allocation, and the approve of a pending
\* leave that asks for more days than the stored balance ends with the
\* validation error of the balance check, the leave still PENDING and the
\* balance as it was.
C27_BalanceNeverOverdrawn ==
    /\ BalanceWithinAllocation
    /\ \A l \in DOMAIN leaves :
          LET self == leaves[l]
              a == approve(leaves, balances, l, today)
          IN /\ self.status = "PENDING"
             /\ self.days_requested > available_balance(balances, self.employee,
                                          self.leave_type, self.year)
             => /\ a.exc = "ValidationError"
                /\ a.leaves = leaves
                /\ a.balances = balances

\* C28 (backend): when two approve requests for one PENDING leave run with
\* their statements interleaved, the balance of the leave's key is lowered
\* by days_requested at most once between the start of the first request
\* and any later state.
C28_ApprovedOnceDebitedOnce ==
    \A w \in Workers, v \in Workers :
        (/\ w # v
         /\ reqs[w].op = "approve" /\ reqs[v].op = "approve"
         /\ reqs[w].l = reqs[v].l
         /\ reqs[w].self[1].status = "PENDING"
         /\ reqs[v].self[1].status = "PENDING")
        => LET row == leaves[reqs[w].l]
           IN available_balance(ledger0, row.employee, row.leave_type, row.year)
                 - available_balance(balances, row.employee, row.leave_type, row.year)
              <= row.days_requested

C30_ApproveRevalidates ==
    \A l \in DOMAIN leaves :
        LET self == leaves[l]
            a == approve(leaves, balances, l, today)
        IN (/\ self.status = "PENDING"
            /\ \/ self.start_date < today
               \/ overlapping_leaves(leaves, self.employee, self.start_date,
                                     self.end_date) # {})
           => /\ a.exc # "none"
              /\ a.leaves = leaves
              /\ a.balances = balances

\* A pending leave that has not started overlaps an approved leave, and the
\* balance of its year covers its days: only the overlap rule refuses it.
C30_Witness ==
    \E l \in DOMAIN leaves :
        LET self == leaves[l]
        IN /\ self.status = "PENDING"
           /\ self.start_date >= today
           /\ overlapping_leaves(leaves, self.employee, self.start_date,
                                 self.end_date) # {}
           /\ ~insufficient_balance(leaves, balances, self.employee,
                                    self.leave_type, self.start_date, self.end_date)
====
